---- MODULE Spec2Model ----
(***************************************************************************)
(* go-audio2org (main.go): a linear command-line program.  parse flags ->  *)
(* load .env -> read the credential -> check the flags -> transcription    *)
(* stage (Whisper request + output file, or read an existing file) ->      *)
(* optional post-processing stage (chat completion + notes file).          *)
(*                                                                         *)
(* Strings that the path functions inspect (file names, paths, the         *)
(* timestamp) are sequences of one-character strings.  File contents and   *)
(* response texts are sequences of words, so that a partial write is a     *)
(* proper prefix of the content.                                           *)
(***************************************************************************)
EXTENDS Integers, Sequences, FiniteSets, TLC

VARIABLES
    pc,                \* position of the process in main.go
    args,              \* the command line: values of -file, -transcription, -output, -post
    config,            \* Config struct (main.go:19-25)
    env,               \* value of OPENAI_API_KEY in the process environment ("" = unset)
    dotenv,            \* the local .env file: "absent", "nokey" or "haskey"
    now,               \* the instant time.Now() returns in generateTimestampedFilePath
    fs,                \* file system: function from path to content
    fs0,               \* history: the file system when the process started
    dirExists,         \* whether the directory "output" exists
    audioBytes,        \* processTranscription: audioBytes
    transcriptionText, \* processTranscription / main: transcriptionText
    outputFilePath,    \* processTranscription / main: outputFilePath
    aiResponse,        \* createEmacsOrgNotes: aiResponse.Choices (contents of the choices)
    notesPath,         \* createEmacsOrgNotes: outputFilePath (the derived notes path)
    ops,               \* history: file and network operations performed, in order
    diag,              \* history: messages logged by log.Fatal / log.Fatalf
    exitStatus,        \* "running", or the exit status of the process (0, 1, 2)
    visited            \* history: the positions the process has been at

vars == <<pc, args, config, env, dotenv, now, fs, fs0, dirExists, audioBytes,
          transcriptionText, outputFilePath, aiResponse, notesPath, ops, diag,
          exitStatus, visited>>

(***************************************************************************)
(* Bounds of the model.                                                    *)
(***************************************************************************)
\* longest path / file name enumerated by the path-function specification
MaxLen == 4
\* largest number of choices in a completion response
MaxChoices == 2

(***************************************************************************)
(* Character strings.                                                      *)
(***************************************************************************)
Slash == "/"
Dot == "."
EmptyStr == << >>

OutputDirName == <<"o","u","t","p","u","t">>
DefaultOutputFileName == <<"t","r","a","n","s","c","r","i","p","t","i","o","n",".","t","x","t">>
OrgSuffix == <<"_","e","m","a","c","s","_","o","r","g","_","n","o","t","e","s",".","o","r","g">>
DotEnvPath == <<".","e","n","v">>
PostProcessTag == "create_emacs_org_notes"

MaxOf(S) == CHOOSE x \in S : \A y \in S : y <= x

\* s[from..] and s[..to] of Go, with 1-based indices
Suffix(s, from) == SubSeq(s, from, Len(s))
Prefix(s, to) == SubSeq(s, 1, to)

\* strings.HasSuffix
HasSuffix(s, suf) ==
    /\ Len(suf) <= Len(s)
    /\ Suffix(s, Len(s) - Len(suf) + 1) = suf

\* strings.TrimSuffix
TrimSuffix(s, suf) ==
    IF HasSuffix(s, suf) THEN Prefix(s, Len(s) - Len(suf)) ELSE s

\* strings.Join(elems, "/")
RECURSIVE JoinSlash(_)
JoinSlash(elems) ==
    IF elems = << >> THEN EmptyStr
    ELSE IF Len(elems) = 1 THEN elems[1]
    ELSE elems[1] \o <<Slash>> \o JoinSlash(Tail(elems))

\* the components of a path between its separators (empty components kept)
RECURSIVE SplitSlash(_)
SplitSlash(p) ==
    LET sl == {i \in 1..Len(p) : p[i] = Slash} IN
    IF sl = {} THEN <<p>>
    ELSE LET i == MaxOf(sl) IN Append(SplitSlash(Prefix(p, i - 1)), Suffix(p, i + 1))

(***************************************************************************)
(* path/filepath (Unix).                                                   *)
(***************************************************************************)
\* filepath.Ext: the suffix beginning at the final dot in the final element
\* of the path; empty if there is no dot.
Ext(path) ==
    LET sl   == {i \in 1..Len(path) : path[i] = Slash}
        from == IF sl = {} THEN 1 ELSE MaxOf(sl) + 1
        dots == {i \in from..Len(path) : path[i] = Dot}
    IN IF dots = {} THEN EmptyStr ELSE Suffix(path, MaxOf(dots))

\* filepath.Clean, on the components: "" and "." are dropped, ".." removes
\* the preceding non-".." component, is dropped at the root and is kept at
\* the start of a relative path.
RECURSIVE CleanComponents(_, _, _)
CleanComponents(comps, out, rooted) ==
    IF comps = << >> THEN out
    ELSE LET c == comps[1]
             rest == Tail(comps)
         IN IF c = EmptyStr \/ c = <<Dot>> THEN CleanComponents(rest, out, rooted)
            ELSE IF c = <<Dot, Dot>>
                 THEN IF out # << >> /\ out[Len(out)] # <<Dot, Dot>>
                      THEN CleanComponents(rest, Prefix(out, Len(out) - 1), rooted)
                      ELSE IF rooted THEN CleanComponents(rest, out, rooted)
                      ELSE CleanComponents(rest, Append(out, c), rooted)
            ELSE CleanComponents(rest, Append(out, c), rooted)

Clean(path) ==
    IF path = EmptyStr THEN <<Dot>>
    ELSE LET rooted == path[1] = Slash
             body   == JoinSlash(CleanComponents(SplitSlash(path), << >>, rooted))
         IN IF rooted THEN <<Slash>> \o body
            ELSE IF body = EmptyStr THEN <<Dot>> ELSE body

\* filepath.Join of two elements: empty elements are ignored, the rest is
\* joined with the separator and cleaned.
Join(a, b) ==
    IF a = EmptyStr /\ b = EmptyStr THEN EmptyStr
    ELSE IF a = EmptyStr THEN Clean(b)
    ELSE IF b = EmptyStr THEN Clean(a)
    ELSE Clean(a \o <<Slash>> \o b)

\* path without its trailing separators
RECURSIVE StripTrailingSlashes(_)
StripTrailingSlashes(p) ==
    IF p # EmptyStr /\ p[Len(p)] = Slash
    THEN StripTrailingSlashes(Prefix(p, Len(p) - 1))
    ELSE p

\* filepath.Base
Base(path) ==
    IF path = EmptyStr THEN <<Dot>>
    ELSE LET p  == StripTrailingSlashes(path)
             sl == {i \in 1..Len(p) : p[i] = Slash}
             b  == IF sl = {} THEN p ELSE Suffix(p, MaxOf(sl) + 1)
         IN IF b = EmptyStr THEN <<Slash>> ELSE b

\* filepath.Dir
Dir(path) ==
    LET sl == {i \in 1..Len(path) : path[i] = Slash} IN
    Clean(IF sl = {} THEN EmptyStr ELSE Prefix(path, MaxOf(sl)))

(***************************************************************************)
(* time.Format("20060102_150405")                                          *)
(***************************************************************************)
DigitChars == <<"0","1","2","3","4","5","6","7","8","9">>
Digit(n) == DigitChars[n + 1]
Pad2(n) == <<Digit((n \div 10) % 10), Digit(n % 10)>>
Pad4(n) == <<Digit((n \div 1000) % 10), Digit((n \div 100) % 10)>> \o Pad2(n % 100)

FormatTimestamp(t) ==
    Pad4(t.year) \o Pad2(t.month) \o Pad2(t.day) \o <<"_">>
        \o Pad2(t.hour) \o Pad2(t.minute) \o Pad2(t.second)

(***************************************************************************)
(* The path functions of main.go.                                          *)
(***************************************************************************)
\* a variant of generateTimestampedFilePath that puts the stamp after the extension
generateTimestampedFilePathAfterExt(outputDir, baseFileName, t) ==
    Join(outputDir, baseFileName \o <<"_">> \o FormatTimestamp(t))

\* main.go:152-157
generateTimestampedFilePath(outputDir, baseFileName, t) ==
    LET timestamp == FormatTimestamp(t)
        ext  == Ext(baseFileName)
        name == Prefix(baseFileName, Len(baseFileName) - Len(ext))
    IN Join(outputDir, name \o <<"_">> \o timestamp \o ext)

\* a variant of generateOrgFilePath that cuts the file name at its first dot
generateOrgFilePathFirstDot(baseFilePath) ==
    LET base == Base(baseFilePath)
        dots == {i \in 1..Len(base) : base[i] = Dot}
        first == IF dots = {} THEN Len(base) + 1 ELSE CHOOSE i \in dots : \A j \in dots : i <= j
    IN Join(Dir(baseFilePath), Prefix(base, first - 1) \o OrgSuffix)

\* main.go:219-224
generateOrgFilePath(baseFilePath) ==
    LET dir == Dir(baseFilePath)
        baseName == TrimSuffix(Base(baseFilePath), Ext(baseFilePath))
        orgFileName == baseName \o OrgSuffix
    IN Join(dir, orgFileName)

\* main.go:98-103: the base name is the -output value or the default
outputFileNameOrDefault(outputFileName) ==
    IF outputFileName = EmptyStr THEN DefaultOutputFileName ELSE outputFileName

(***************************************************************************)
(* Inputs of a run.                                                        *)
(***************************************************************************)
\* values of -file ("" = flag not given)
AudioPaths == {EmptyStr, <<"r",".","m","p","3">>}
\* values of -transcription
TranscriptionPaths == {EmptyStr, <<"a","/","b",".","t","x","t">>, <<"m","e","m","o">>}
\* values of -output
OutputNames == {EmptyStr, <<"n",".","m","d">>, <<"x">>}
\* values of -post
PostCmds == {"", PostProcessTag, "summarize"}
\* values of OPENAI_API_KEY
ApiKeys == {"", "sk-key"}
DotEnvStates == {"absent", "nokey", "haskey"}
DotEnvKey == "sk-dotenv"

Instants ==
    { [year |-> 2024, month |-> 6, day |-> 9, hour |-> 8, minute |-> 5, second |-> 7],
      [year |-> 1999, month |-> 12, day |-> 31, hour |-> 23, minute |-> 59, second |-> 59] }

\* contents and texts are sequences of words
AudioContent == <<"RIFF", "data">>
ExistingTranscriptionContent == <<"meeting", "notes">>
OldContent == <<"old", "content", "here">>
Texts == { << >>, <<"hello", "world">> }
NoteContents == { <<"#+title:", "Test">>, <<"*", "Summary">> }

WhisperURL == "https://api.openai.com/v1/audio/transcriptions"
ChatURL == "https://api.openai.com/v1/chat/completions"

\* what an HTTP POST can come back with: a transport error, a non-success
\* status, a body that is not JSON, or a JSON body
WhisperResponses ==
    [kind : {"transportError", "httpError", "malformed"}, text : {<< >>}]
        \cup [kind : {"ok"}, text : Texts]

ChoiceLists == UNION { [1..n -> NoteContents] : n \in 0..MaxChoices }

ChatResponses ==
    [kind : {"transportError", "httpError", "malformed"}, choices : {<< >>}]
        \cup [kind : {"ok"}, choices : ChoiceLists]

\* main.go:226-244: the transcription text inside the fixed template
createPrompt(text) == <<"PROMPT-HEAD">> \o text \o <<"PROMPT-TAIL">>

(***************************************************************************)
(* File system and history helpers.                                        *)
(***************************************************************************)
FileExists(f, path) == path \in DOMAIN f

\* the file system after path holds content
FsPut(f, path, content) ==
    [p \in DOMAIN f \cup {path} |-> IF p = path THEN content ELSE f[p]]

FileOp(kind, path, data, ok) ==
    [kind |-> kind, path |-> path, url |-> "", data |-> data, ok |-> ok]
NetOp(url, data) ==
    [kind |-> "post", path |-> EmptyStr, url |-> url, data |-> data, ok |-> TRUE]
\* history only: the decoded body of a successful response
RecvOp(url, data) ==
    [kind |-> "recv", path |-> EmptyStr, url |-> url, data |-> data, ok |-> TRUE]

Goto(l) == pc' = l /\ visited' = visited \cup {l}

\* log.Fatal / log.Fatalf: one line on the log, then os.Exit(1)
Fatal(msg) ==
    /\ diag' = Append(diag, msg)
    /\ exitStatus' = "1"
    /\ Goto("exited")

ZeroConfig ==
    [AudioFilePath |-> EmptyStr, TranscriptionFilePath |-> EmptyStr,
     OutputFileName |-> EmptyStr, PostProcessCmd |-> "", OpenAIAPIKey |-> ""]

\* the files present when the process starts
InitialFs(a, t, hasAudio, hasTranscription, hasOutput) ==
    LET out == generateTimestampedFilePath(OutputDirName, outputFileNameOrDefault(a.output), t)
        dom == (IF hasAudio /\ a.file # EmptyStr THEN {a.file} ELSE {})
               \cup (IF hasTranscription /\ a.transcription # EmptyStr
                     THEN {a.transcription} ELSE {})
               \cup (IF hasOutput THEN {out} ELSE {})
    IN [p \in dom |-> IF p = a.file THEN AudioContent
                      ELSE IF p = a.transcription THEN ExistingTranscriptionContent
                      ELSE OldContent]

Init ==
    /\ pc = "parseFlags"
    /\ args \in [file : AudioPaths, transcription : TranscriptionPaths,
                 output : OutputNames, post : PostCmds]
    /\ config = ZeroConfig
    /\ env \in ApiKeys
    /\ dotenv \in DotEnvStates
    /\ now \in Instants
    /\ dirExists \in BOOLEAN
    /\ \E hasAudio \in BOOLEAN, hasTranscription \in BOOLEAN, hasOutput \in BOOLEAN :
          /\ hasOutput => dirExists
          /\ fs = InitialFs(args, now, hasAudio, hasTranscription, hasOutput)
    /\ fs0 = fs
    /\ audioBytes = << >>
    /\ transcriptionText = << >>
    /\ outputFilePath = EmptyStr
    /\ aiResponse = << >>
    /\ notesPath = EmptyStr
    /\ ops = << >>
    /\ diag = << >>
    /\ exitStatus = "running"
    /\ visited = {"parseFlags"}

(***************************************************************************)
(* main.go:57-67  parseFlags                                               *)
(***************************************************************************)
parseFlags ==
    /\ pc = "parseFlags"
    /\ config' = [ZeroConfig EXCEPT !.AudioFilePath = args.file,
                                    !.TranscriptionFilePath = args.transcription,
                                    !.OutputFileName = args.output,
                                    !.PostProcessCmd = args.post]
    /\ Goto("loadEnv")
    /\ UNCHANGED <<fs0, args, env, dotenv, now, fs, dirExists, audioBytes, transcriptionText,
                   outputFilePath, aiResponse, notesPath, ops, diag, exitStatus>>

(***************************************************************************)
(* main.go:69-74  loadEnv: godotenv.Load opens and reads .env; a variable  *)
(* the file gives is set unless the environment already has it.  A missing *)
(* file is logged and is not fatal.                                        *)
(***************************************************************************)
loadEnv ==
    /\ pc = "loadEnv"
    /\ ops' = Append(ops, FileOp("read", DotEnvPath, << >>, dotenv # "absent"))
    /\ env' = IF dotenv = "haskey" /\ env = "" THEN DotEnvKey ELSE env
    /\ Goto("getEnv")
    /\ UNCHANGED <<fs0, args, config, dotenv, now, fs, dirExists, audioBytes, transcriptionText,
                   outputFilePath, aiResponse, notesPath, diag, exitStatus>>

\* a variant of getEnv that returns the value without testing it
getEnvUnchecked ==
    /\ pc = "getEnv"
    /\ config' = [config EXCEPT !.OpenAIAPIKey = env]
    /\ Goto("checkArgs")
    /\ UNCHANGED <<diag, exitStatus>>
    /\ UNCHANGED <<fs0, args, env, dotenv, now, fs, dirExists, audioBytes, transcriptionText,
                   outputFilePath, aiResponse, notesPath, ops>>

(***************************************************************************)
(* main.go:44, 76-82  getEnv("OPENAI_API_KEY")                             *)
(***************************************************************************)
getEnv ==
    /\ pc = "getEnv"
    /\ IF env = ""
       THEN /\ Fatal("OPENAI_API_KEY not set in environment")
            /\ UNCHANGED config
       ELSE /\ config' = [config EXCEPT !.OpenAIAPIKey = env]
            /\ Goto("checkArgs")
            /\ UNCHANGED <<diag, exitStatus>>
    /\ UNCHANGED <<fs0, args, env, dotenv, now, fs, dirExists, audioBytes, transcriptionText,
                   outputFilePath, aiResponse, notesPath, ops>>

\* a variant of the required-argument check that also rejects both flags
checkArgsExactlyOne ==
    /\ pc = "checkArgs"
    /\ IF (config.AudioFilePath = EmptyStr) = (config.TranscriptionFilePath = EmptyStr)
       THEN Fatal("The -file or -transcription argument is required.")
       ELSE /\ Goto("processTranscription")
            /\ UNCHANGED <<diag, exitStatus>>
    /\ UNCHANGED <<fs0, args, config, env, dotenv, now, fs, dirExists, audioBytes,
                   transcriptionText, outputFilePath, aiResponse, notesPath, ops>>

(***************************************************************************)
(* main.go:46-48  the required-argument check                              *)
(***************************************************************************)
checkArgs ==
    /\ pc = "checkArgs"
    /\ IF config.AudioFilePath = EmptyStr /\ config.TranscriptionFilePath = EmptyStr
       THEN Fatal("The -file or -transcription argument is required.")
       ELSE /\ Goto("processTranscription")
            /\ UNCHANGED <<diag, exitStatus>>
    /\ UNCHANGED <<fs0, args, config, env, dotenv, now, fs, dirExists, audioBytes,
                   transcriptionText, outputFilePath, aiResponse, notesPath, ops>>

\* a variant of the choice of the source that tests the transcription path first
processTranscriptionPreferExisting ==
    /\ pc = "processTranscription"
    /\ Goto(IF config.TranscriptionFilePath # EmptyStr THEN "readExistingTranscription"
            ELSE IF config.AudioFilePath # EmptyStr THEN "readAudio"
            ELSE "checkPost")
    /\ UNCHANGED <<fs0, args, config, env, dotenv, now, fs, dirExists, audioBytes,
                   transcriptionText, outputFilePath, aiResponse, notesPath, ops, diag,
                   exitStatus>>

(***************************************************************************)
(* main.go:84-88, 105  processTranscription: the choice of the source      *)
(***************************************************************************)
processTranscription ==
    /\ pc = "processTranscription"
    /\ Goto(IF config.AudioFilePath # EmptyStr THEN "readAudio"
            ELSE IF config.TranscriptionFilePath # EmptyStr THEN "readExistingTranscription"
            ELSE "checkPost")
    /\ UNCHANGED <<fs0, args, config, env, dotenv, now, fs, dirExists, audioBytes,
                   transcriptionText, outputFilePath, aiResponse, notesPath, ops, diag,
                   exitStatus>>

(***************************************************************************)
(* main.go:89-94  os.ReadFile(config.AudioFilePath)                        *)
(***************************************************************************)
readAudio ==
    /\ pc = "readAudio"
    /\ LET path == config.AudioFilePath
           ok == FileExists(fs, path)
       IN /\ ops' = Append(ops, FileOp("read", path, << >>, ok))
          /\ IF ok
             THEN /\ audioBytes' = fs[path]
                  /\ Goto("transcribeAudio")
                  /\ UNCHANGED <<diag, exitStatus>>
             ELSE /\ Fatal("Error reading audio file")
                  /\ UNCHANGED audioBytes
    /\ UNCHANGED <<fs0, args, config, env, dotenv, now, fs, dirExists, transcriptionText,
                   outputFilePath, aiResponse, notesPath>>

(***************************************************************************)
(* main.go:95-96, 113-140  transcribeAudio                                 *)
(***************************************************************************)
transcribeAudio ==
    /\ pc = "transcribeAudio"
    /\ \E resp \in WhisperResponses :
        /\ ops' = IF resp.kind = "ok"
                  THEN ops \o <<NetOp(WhisperURL, audioBytes), RecvOp(WhisperURL, resp.text)>>
                  ELSE Append(ops, NetOp(WhisperURL, audioBytes))
        /\ IF resp.kind = "transportError"
          THEN Fatal("Error sending request to Whisper API") /\ UNCHANGED transcriptionText
          ELSE IF resp.kind = "httpError"
          THEN Fatal("Error response from Whisper API") /\ UNCHANGED transcriptionText
          ELSE IF resp.kind = "malformed"
          THEN Fatal("Error unmarshalling JSON response") /\ UNCHANGED transcriptionText
          ELSE /\ transcriptionText' = resp.text
               /\ Goto("createOutputDir")
               /\ UNCHANGED <<diag, exitStatus>>
    /\ UNCHANGED <<fs0, args, config, env, dotenv, now, fs, dirExists, audioBytes,
                   outputFilePath, aiResponse, notesPath>>

(***************************************************************************)
(* main.go:98, 142-150  createOutputDir                                    *)
(***************************************************************************)
createOutputDir ==
    /\ pc = "createOutputDir"
    /\ IF dirExists
       THEN /\ ops' = Append(ops, FileOp("stat", OutputDirName, << >>, TRUE))
            /\ Goto("generateTimestampedFilePath")
            /\ UNCHANGED <<dirExists, diag, exitStatus>>
       ELSE \E created \in BOOLEAN :
               /\ ops' = ops \o << FileOp("stat", OutputDirName, << >>, FALSE),
                                   FileOp("mkdir", OutputDirName, << >>, created) >>
               /\ IF created
                  THEN /\ dirExists' = TRUE
                       /\ Goto("generateTimestampedFilePath")
                       /\ UNCHANGED <<diag, exitStatus>>
                  ELSE /\ Fatal("Error creating output directory")
                       /\ UNCHANGED dirExists
    /\ UNCHANGED <<fs0, args, config, env, dotenv, now, fs, audioBytes, transcriptionText,
                   outputFilePath, aiResponse, notesPath>>

(***************************************************************************)
(* main.go:99-103  the base name and the timestamped path                  *)
(***************************************************************************)
buildOutputFilePath ==
    /\ pc = "generateTimestampedFilePath"
    /\ outputFilePath' = generateTimestampedFilePath(
                             OutputDirName, outputFileNameOrDefault(config.OutputFileName), now)
    /\ Goto("writeTranscription")
    /\ UNCHANGED <<fs0, args, config, env, dotenv, now, fs, dirExists, audioBytes,
                   transcriptionText, aiResponse, notesPath, ops, diag, exitStatus>>

\* a variant of writeToFile that opens the file for appending
writeToFileAppend(filePath, content, next) ==
    LET old == IF FileExists(fs, filePath) THEN fs[filePath] ELSE << >> IN
    \E outcome \in {"ok", "openFailed"} :
        IF outcome = "ok"
        THEN /\ fs' = FsPut(fs, filePath, old \o content)
             /\ ops' = Append(ops, FileOp("write", filePath, content, TRUE))
             /\ Goto(next)
             /\ UNCHANGED <<diag, exitStatus>>
        ELSE /\ fs' = fs
             /\ ops' = Append(ops, FileOp("write", filePath, << >>, FALSE))
             /\ Fatal("Error writing to file")

(***************************************************************************)
(* main.go:159-164  writeToFile.  os.WriteFile opens the file with         *)
(* O_CREATE|O_TRUNC, writes and closes; a failure in the middle leaves the *)
(* file partially written (package os).  When it fails the file is either  *)
(* untouched (the open failed) or holds a prefix of the content.           *)
(***************************************************************************)
writeToFile(filePath, content, next) ==
    \E outcome \in {"ok", "openFailed", "writeFailed"} :
        IF outcome = "ok"
        THEN /\ fs' = FsPut(fs, filePath, content)
             /\ ops' = Append(ops, FileOp("write", filePath, content, TRUE))
             /\ Goto(next)
             /\ UNCHANGED <<diag, exitStatus>>
        ELSE IF outcome = "openFailed"
        THEN /\ fs' = fs
             /\ ops' = Append(ops, FileOp("write", filePath, << >>, FALSE))
             /\ Fatal("Error writing to file")
        ELSE \E k \in 0..Len(content) :
                /\ fs' = FsPut(fs, filePath, Prefix(content, k))
                /\ ops' = Append(ops, FileOp("write", filePath, Prefix(content, k), FALSE))
                /\ Fatal("Error writing to file")

\* main.go:104
writeTranscription ==
    /\ pc = "writeTranscription"
    /\ writeToFile(outputFilePath, transcriptionText, "checkPost")
    /\ UNCHANGED <<fs0, args, config, env, dotenv, now, dirExists, audioBytes,
                   transcriptionText, outputFilePath, aiResponse, notesPath>>

(***************************************************************************)
(* main.go:105-107, 166-175  readExistingTranscription                     *)
(***************************************************************************)
readExistingTranscription ==
    /\ pc = "readExistingTranscription"
    /\ LET path == config.TranscriptionFilePath
           ok == FileExists(fs, path)
       IN /\ ops' = Append(ops, FileOp("read", path, << >>, ok))
          /\ IF ok
             THEN /\ transcriptionText' = fs[path]
                  /\ outputFilePath' = path
                  /\ Goto("checkPost")
                  /\ UNCHANGED <<diag, exitStatus>>
             ELSE /\ Fatal("Error reading transcription file")
                  /\ UNCHANGED <<transcriptionText, outputFilePath>>
    /\ UNCHANGED <<fs0, args, config, env, dotenv, now, fs, dirExists, audioBytes,
                   aiResponse, notesPath>>

\* a variant of the directive test that post-processes on any non-empty directive
checkPostAnyDirective ==
    /\ pc = "checkPost"
    /\ IF config.PostProcessCmd # ""
       THEN /\ Goto("createEmacsOrgNotes")
            /\ UNCHANGED exitStatus
       ELSE /\ exitStatus' = "0"
            /\ Goto("exited")
    /\ UNCHANGED <<fs0, args, config, env, dotenv, now, fs, dirExists, audioBytes,
                   transcriptionText, outputFilePath, aiResponse, notesPath, ops, diag>>

(***************************************************************************)
(* main.go:50-55  the post-processing directive                            *)
(***************************************************************************)
checkPost ==
    /\ pc = "checkPost"
    /\ IF config.PostProcessCmd = PostProcessTag
       THEN /\ Goto("createEmacsOrgNotes")
            /\ UNCHANGED exitStatus
       ELSE /\ exitStatus' = "0"
            /\ Goto("exited")
    /\ UNCHANGED <<fs0, args, config, env, dotenv, now, fs, dirExists, audioBytes,
                   transcriptionText, outputFilePath, aiResponse, notesPath, ops, diag>>

\* a variant of the completion request that removes the transcription file
\* when the request fails
createEmacsOrgNotesRollback ==
    /\ pc = "createEmacsOrgNotes"
    /\ \E resp \in ChatResponses :
        /\ ops' = IF resp.kind = "ok"
                  THEN ops \o <<NetOp(ChatURL, createPrompt(transcriptionText)),
                                 RecvOp(ChatURL, resp.choices)>>
                  ELSE Append(ops, NetOp(ChatURL, createPrompt(transcriptionText)))
        /\ IF resp.kind = "ok"
           THEN /\ aiResponse' = resp.choices
                /\ Goto("generateOrgFilePath")
                /\ UNCHANGED <<fs, diag, exitStatus>>
           ELSE /\ Fatal("Error sending request to OpenAI API")
                /\ fs' = [p \in DOMAIN fs \ {outputFilePath} |-> fs[p]]
                /\ UNCHANGED aiResponse
    /\ UNCHANGED <<fs0, args, config, env, dotenv, now, dirExists, audioBytes,
                   transcriptionText, outputFilePath, notesPath>>

(***************************************************************************)
(* main.go:177-213  createEmacsOrgNotes: the completion request            *)
(***************************************************************************)
createEmacsOrgNotes ==
    /\ pc = "createEmacsOrgNotes"
    /\ \E resp \in ChatResponses :
        /\ ops' = IF resp.kind = "ok"
                  THEN ops \o <<NetOp(ChatURL, createPrompt(transcriptionText)),
                                 RecvOp(ChatURL, resp.choices)>>
                  ELSE Append(ops, NetOp(ChatURL, createPrompt(transcriptionText)))
        /\ IF resp.kind = "transportError"
          THEN Fatal("Error sending request to OpenAI API") /\ UNCHANGED aiResponse
          ELSE IF resp.kind = "httpError"
          THEN Fatal("Error response from OpenAI API") /\ UNCHANGED aiResponse
          ELSE IF resp.kind = "malformed"
          THEN Fatal("Error unmarshalling OpenAI response") /\ UNCHANGED aiResponse
          ELSE /\ aiResponse' = resp.choices
               /\ Goto("generateOrgFilePath")
               /\ UNCHANGED <<diag, exitStatus>>
    /\ UNCHANGED <<fs0, args, config, env, dotenv, now, fs, dirExists, audioBytes,
                   transcriptionText, outputFilePath, notesPath>>

(***************************************************************************)
(* main.go:215  outputFilePath := generateOrgFilePath(baseFilePath)        *)
(***************************************************************************)
deriveNotesPath ==
    /\ pc = "generateOrgFilePath"
    /\ notesPath' = generateOrgFilePath(outputFilePath)
    /\ Goto("writeNotes")
    /\ UNCHANGED <<fs0, args, config, env, dotenv, now, fs, dirExists, audioBytes,
                   transcriptionText, outputFilePath, aiResponse, ops, diag, exitStatus>>

\* a variant of the notes write that takes the last choice
writeNotesLastChoice ==
    /\ pc = "writeNotes"
    /\ IF aiResponse = << >>
       THEN /\ exitStatus' = "2"
            /\ Goto("exited")
            /\ UNCHANGED <<fs, ops, diag>>
       ELSE writeToFile(notesPath, aiResponse[Len(aiResponse)], "done")
    /\ UNCHANGED <<fs0, args, config, env, dotenv, now, dirExists, audioBytes,
                   transcriptionText, outputFilePath, aiResponse, notesPath>>

(***************************************************************************)
(* main.go:216  writeToFile(outputFilePath, Choices[0].Message.Content).   *)
(* Indexing an empty Choices is a run-time panic (index out of range): the *)
(* Go run time prints the panic and exits with status 2; log.Fatalf is not *)
(* called and writeToFile is not reached.                                  *)
(***************************************************************************)
writeNotes ==
    /\ pc = "writeNotes"
    /\ IF aiResponse = << >>
       THEN /\ exitStatus' = "2"
            /\ Goto("exited")
            /\ UNCHANGED <<fs, ops, diag>>
       ELSE writeToFile(notesPath, aiResponse[1], "done")
    /\ UNCHANGED <<fs0, args, config, env, dotenv, now, dirExists, audioBytes,
                   transcriptionText, outputFilePath, aiResponse, notesPath>>

\* main.go:55  main returns
exitMain ==
    /\ pc = "done"
    /\ exitStatus' = "0"
    /\ Goto("exited")
    /\ UNCHANGED <<fs0, args, config, env, dotenv, now, fs, dirExists, audioBytes,
                   transcriptionText, outputFilePath, aiResponse, notesPath, ops, diag>>

Next ==
    \/ parseFlags
    \/ loadEnv
    \/ getEnv
    \/ checkArgs
    \/ processTranscription
    \/ readAudio
    \/ transcribeAudio
    \/ createOutputDir
    \/ buildOutputFilePath
    \/ writeTranscription
    \/ readExistingTranscription
    \/ checkPost
    \/ createEmacsOrgNotes
    \/ deriveNotesPath
    \/ writeNotes
    \/ exitMain

Spec == Init /\ [][Next]_vars

(***************************************************************************)
(* The path functions on their own: every base name and every reference    *)
(* path up to MaxLen characters, at the two positions of the program that  *)
(* call generateTimestampedFilePath and generateOrgFilePath.               *)
(***************************************************************************)
PathAlphabet == {"a", Dot, Slash}

Strings(n) == UNION { [1..k -> PathAlphabet] : k \in 0..n }

\* the -output values enumerated: "" (the default applies), the short
\* strings, and a name with several dots
BaseNames == Strings(MaxLen) \cup { <<"a",".","b",".","c">> }

\* a path os.ReadFile can read names a file: it is not empty, has no
\* trailing separator and its last element is neither "." nor ".."
IsFilePath(p) ==
    /\ p # EmptyStr
    /\ p[Len(p)] # Slash
    /\ LET last == SplitSlash(p)[Len(SplitSlash(p))]
       IN last # <<Dot>> /\ last # <<Dot, Dot>>

ReferencePaths ==
    { p \in Strings(MaxLen) : IsFilePath(p) }
        \cup { <<"a","/","b",".","t","x","t">>, <<"d",".","e","/","n","o","t","e">> }

PathInit ==
    /\ pc \in {"generateTimestampedFilePath", "generateOrgFilePath"}
    /\ visited = {pc}
    /\ now \in Instants
    /\ \/ /\ pc = "generateTimestampedFilePath"
          /\ \E name \in BaseNames :
                /\ args = [file |-> <<"r",".","m","p","3">>, transcription |-> EmptyStr,
                           output |-> name, post |-> ""]
                /\ config = [ZeroConfig EXCEPT !.AudioFilePath = args.file,
                                               !.OutputFileName = name,
                                               !.OpenAIAPIKey = "sk-key"]
          /\ outputFilePath = EmptyStr
       \/ /\ pc = "generateOrgFilePath"
          /\ \E path \in ReferencePaths :
                /\ args = [file |-> EmptyStr, transcription |-> path,
                           output |-> EmptyStr, post |-> PostProcessTag]
                /\ config = [ZeroConfig EXCEPT !.TranscriptionFilePath = path,
                                               !.PostProcessCmd = PostProcessTag,
                                               !.OpenAIAPIKey = "sk-key"]
                /\ outputFilePath = path
    /\ env = "sk-key"
    /\ dotenv = "absent"
    /\ fs = << >>
    /\ fs0 = fs
    /\ dirExists = TRUE
    /\ audioBytes = << >>
    /\ transcriptionText = << >>
    /\ aiResponse = << >>
    /\ notesPath = EmptyStr
    /\ ops = << >>
    /\ diag = << >>
    /\ exitStatus = "running"

PathNext ==
    \/ buildOutputFilePath
    \/ deriveNotesPath

PathSpec == PathInit /\ [][PathNext]_vars

(***************************************************************************)
(* Vocabulary of the properties.                                           *)
(***************************************************************************)
UsageMessage == "The -file or -transcription argument is required."
MissingKeyMessage == "OPENAI_API_KEY not set in environment"
WriteErrorMessage == "Error writing to file"
AudioReadErrorMessage == "Error reading audio file"

Exited == pc = "exited"
AudioSet == args.file # EmptyStr
TranscriptionSet == args.transcription # EmptyStr

OpIndices(kind) == {i \in DOMAIN ops : ops[i].kind = kind}
Posts(url) == {i \in OpIndices("post") : ops[i].url = url}
Received(url) == {i \in OpIndices("recv") : ops[i].url = url}
NoNetworkCall == OpIndices("post") = {}

\* file operations that were carried out (a failed open carries out nothing)
PerformedFileOps ==
    {i \in DOMAIN ops : ops[i].kind \in {"read", "write", "mkdir", "stat"} /\ ops[i].ok}
\* every file write, failed ones included
WriteAttempts == OpIndices("write")

\* the process got past position l
Past(l) == l \in visited /\ pc # l

ReachedTranscriptionStage == "processTranscription" \in visited

UsageError ==
    /\ Exited
    /\ exitStatus = "1"
    /\ diag = <<UsageMessage>>

\* Transcribe-from-audio was executed: the request to the transcription
\* endpoint was issued
TranscribeExecuted == Posts(WhisperURL) # {}
\* Read-existing-transcription was executed: the read of the -transcription
\* file was attempted
ReadExistingExecuted ==
    \E i \in OpIndices("read") : TranscriptionSet /\ ops[i].path = args.transcription

\* the transcription stage is over: entered, and left by return or by abort
TranscriptionStagePositions ==
    {"processTranscription", "readAudio", "transcribeAudio", "createOutputDir",
     "generateTimestampedFilePath", "writeTranscription", "readExistingTranscription"}
TranscriptionStageOver ==
    ReachedTranscriptionStage /\ pc \notin TranscriptionStagePositions

AudioReadFailed == diag = <<AudioReadErrorMessage>>

IsPrefixOf(s, full) == Len(s) <= Len(full) /\ s = Prefix(full, Len(s))

(***************************************************************************)
(* C1                                                                      *)
(***************************************************************************)
\* C1 as stated: with the credential present, when not exactly one of the
\* audio path and the transcription path is non-empty (both empty, or both
\* set) the run ends with the usage error before any network call; when
\* exactly one is non-empty the run reaches the transcription stage.
C1_UsageErrorUnlessExactlyOnePath ==
    Past("checkArgs") =>
        IF AudioSet # TranscriptionSet
        THEN ReachedTranscriptionStage
        ELSE UsageError /\ NoNetworkCall /\ ~ReachedTranscriptionStage

\* C1 amended: with the credential present, the run ends with the usage
\* error before any network call exactly when both paths are empty; when at
\* least one path is non-empty (both set included) it reaches the
\* transcription stage.
C1_UsageErrorIffBothPathsEmpty ==
    Past("checkArgs") =>
        IF AudioSet \/ TranscriptionSet
        THEN ReachedTranscriptionStage /\ diag # <<UsageMessage>>
        ELSE UsageError /\ NoNetworkCall /\ ~ReachedTranscriptionStage

\* C1 witness: both flags given, and the run went on to issue the
\* transcription request
C1_Witness_BothSetReachesStage ==
    /\ AudioSet /\ TranscriptionSet
    /\ ReachedTranscriptionStage
    /\ TranscribeExecuted

(***************************************************************************)
(* C2                                                                      *)
(***************************************************************************)
\* at most one source is ever executed, the one the paths select, and with
\* both paths set the existing transcription file is never read
SourceSelectedByPaths ==
    /\ ~(TranscribeExecuted /\ ReadExistingExecuted)
    /\ TranscribeExecuted => AudioSet
    /\ ReadExistingExecuted => ~AudioSet /\ TranscriptionSet
    /\ (AudioSet /\ TranscriptionSet) => ~ReadExistingExecuted

\* C2 as stated: in every run that reaches the transcription stage exactly
\* one of Transcribe-from-audio and Read-existing-transcription is executed
\* (never both, never neither), selected by which path is non-empty; with
\* both paths set the transcription request is issued and the existing
\* transcription file is never read.
C2_ExactlyOneSourceInEveryRun ==
    /\ SourceSelectedByPaths
    /\ TranscriptionStageOver =>
          /\ TranscribeExecuted # ReadExistingExecuted
          /\ AudioSet => TranscribeExecuted

\* C2 amended: never both; the source is selected by which path is
\* non-empty and the audio path wins when both are set (the existing file is
\* never read); when the stage is over exactly one of the two was executed,
\* except that neither was when the audio file could not be read (the run
\* aborts before the request is issued).
C2_ExactlyOneSourceUnlessAudioUnreadable ==
    /\ SourceSelectedByPaths
    /\ TranscriptionStageOver =>
          IF AudioReadFailed
          THEN ~TranscribeExecuted /\ ~ReadExistingExecuted
          ELSE /\ TranscribeExecuted # ReadExistingExecuted
               /\ AudioSet => TranscribeExecuted

\* C2 witness: both paths set, the stage is over, the request was issued
\* and the existing transcription file was not read
C2_Witness_AudioWins ==
    /\ AudioSet /\ TranscriptionSet
    /\ TranscriptionStageOver
    /\ TranscribeExecuted
    /\ ~ReadExistingExecuted
    /\ FileExists(fs0, args.transcription)

(***************************************************************************)
(* C3                                                                      *)
(***************************************************************************)
\* C3: when the -post directive is anything but create_emacs_org_notes (the
\* empty directive included) no completion request is issued, no notes file
\* is created (the only file written is the transcription file) and the run
\* ends right after the transcription stage.
C3_NoPostProcessingWithoutTag ==
    args.post # PostProcessTag =>
        /\ Posts(ChatURL) = {}
        /\ "createEmacsOrgNotes" \notin visited
        /\ notesPath = EmptyStr
        /\ \A i \in WriteAttempts : ops[i].path = outputFilePath /\ AudioSet
        /\ \A p \in DOMAIN fs : ~HasSuffix(p, OrgSuffix)
        /\ Past("checkPost") => Exited /\ exitStatus = "0"

\* C3 witness: an unrecognised directive, the transcription written, the run
\* ended with status 0
C3_Witness_OtherDirective ==
    /\ args.post = "summarize"
    /\ Exited /\ exitStatus = "0"
    /\ TranscribeExecuted
    /\ FileExists(fs, outputFilePath)

(***************************************************************************)
(* C4                                                                      *)
(***************************************************************************)
\* the run was aborted by getEnv
MissingKeyAbort ==
    /\ Exited
    /\ exitStatus = "1"
    /\ diag = <<MissingKeyMessage>>

\* C4 as stated: when OPENAI_API_KEY is absent the process aborts before
\* any file operation and before any network operation is performed.
C4_AbortBeforeAnyFileOrNetworkOp ==
    (Past("getEnv") /\ env = "") =>
        /\ MissingKeyAbort
        /\ NoNetworkCall
        /\ PerformedFileOps = {}

\* C4 amended: when OPENAI_API_KEY is absent (also after the .env file was
\* loaded) the process aborts before any network operation and before any
\* file operation other than the read of the local .env file by loadEnv.
C4_AbortBeforeAnyOpButEnvFile ==
    (Past("getEnv") /\ env = "") =>
        /\ MissingKeyAbort
        /\ NoNetworkCall
        /\ \A i \in DOMAIN ops : ops[i].kind = "read" /\ ops[i].path = DotEnvPath
        /\ fs = fs0

\* C4 witness: no key anywhere, flags given, the run aborted having read
\* only the .env file
C4_Witness_AbortAfterEnvFile ==
    /\ MissingKeyAbort
    /\ AudioSet
    /\ dotenv = "nokey"
    /\ ops = <<FileOp("read", DotEnvPath, << >>, TRUE)>>

(***************************************************************************)
(* C5                                                                      *)
(***************************************************************************)
\* the text field of the transcription response that was received
WhisperText == ops[CHOOSE i \in Received(WhisperURL) : TRUE].data

\* the transcription file was written without error
TranscriptionWritten == AudioSet /\ "checkPost" \in visited

\* C5: in audio mode, once the transcription was received and written, the
\* output file holds exactly the text field of the response (whatever the
\* file held before), and that same text is what the post-processing stage
\* is given (the prompt of the completion request is built from it).
C5_TranscriptionWrittenVerbatim ==
    TranscriptionWritten =>
        /\ FileExists(fs, outputFilePath)
        /\ fs[outputFilePath] = WhisperText
        /\ transcriptionText = WhisperText
        /\ \A i \in Posts(ChatURL) : ops[i].data = createPrompt(WhisperText)

\* C5 witness: the output path already held other content, the response
\* text was "hello world", and the completion request was issued
C5_Witness_ReplacesOldContent ==
    /\ TranscriptionWritten
    /\ FileExists(fs0, outputFilePath)
    /\ fs0[outputFilePath] = OldContent
    /\ WhisperText = <<"hello", "world">>
    /\ fs[outputFilePath] = <<"hello", "world">>
    /\ Posts(ChatURL) # {}

(***************************************************************************)
(* C8                                                                      *)
(***************************************************************************)
TranscriptionOnlyWithTag ==
    ~AudioSet /\ TranscriptionSet /\ args.post = PostProcessTag

\* the choices of the completion response that was received
ReceivedChoices == ops[CHOOSE i \in Received(ChatURL) : TRUE].data

\* C8: with only -transcription set and the create_emacs_org_notes
\* directive, the output writer of the transcription stage is skipped (no
\* transcription request, no output directory check or creation, no
\* timestamped path, no transcription file written), the reference path is
\* the existing file's own path, and after a successful completion the only
\* file written is the notes file at Derive-notes-path(transcription path),
\* holding exactly the content of the first choice.
C8_ExistingTranscriptionToNotes ==
    TranscriptionOnlyWithTag =>
        LET np == generateOrgFilePath(args.transcription) IN
        /\ Posts(WhisperURL) = {}
        /\ \A i \in DOMAIN ops : ops[i].kind \notin {"mkdir", "stat"}
        /\ visited \cap {"createOutputDir", "generateTimestampedFilePath",
                         "writeTranscription"} = {}
        /\ "checkPost" \in visited => outputFilePath = args.transcription
        /\ \A i \in WriteAttempts : ops[i].path = np
        /\ (Exited /\ exitStatus = "0") =>
              /\ Cardinality(WriteAttempts) = 1
              /\ notesPath = np
              /\ DOMAIN fs = DOMAIN fs0 \cup {np}
              /\ fs[np] = ReceivedChoices[1]
              /\ \A p \in DOMAIN fs0 \ {np} : fs[p] = fs0[p]

\* C8 witness: the scenario of the specification (a/b.txt holding "meeting
\* notes", first choice "#+title: Test", a different second choice)
C8_Witness_NotesFromExistingFile ==
    /\ TranscriptionOnlyWithTag
    /\ args.transcription = <<"a","/","b",".","t","x","t">>
    /\ args.output # EmptyStr
    /\ Exited /\ exitStatus = "0"
    /\ Len(ReceivedChoices) = 2
    /\ ReceivedChoices[2] # ReceivedChoices[1]
    /\ fs[<<"a","/","b">> \o OrgSuffix] = <<"#+title:", "Test">>
    /\ fs[args.transcription] = <<"meeting", "notes">>

(***************************************************************************)
(* C9                                                                      *)
(***************************************************************************)
\* the completion stage was entered and the run ended in failure
CompletionStageAborted ==
    "createEmacsOrgNotes" \in visited /\ Exited /\ exitStatus # "0"

\* a fatal condition ends the run at once, with one diagnostic, and what
\* the successful writes left on disk is still there
FatalIsTerminal ==
    /\ Exited => ~ENABLED Next
    /\ exitStatus = "1" => Exited /\ Len(diag) = 1
    /\ exitStatus # "1" => diag = << >>
    /\ \A i \in WriteAttempts :
          ops[i].ok => FileExists(fs, ops[i].path) /\ fs[ops[i].path] = ops[i].data

\* C9 as stated: every error is terminal and nothing is cleaned up; when the
\* completion stage aborts in audio mode the transcription file still holds
\* the transcription text and no notes file exists.
C9_AbortLeavesNoNotesFile ==
    /\ FatalIsTerminal
    /\ (AudioSet /\ CompletionStageAborted) =>
          /\ FileExists(fs, outputFilePath)
          /\ fs[outputFilePath] = transcriptionText
          /\ ~FileExists(fs, generateOrgFilePath(outputFilePath))

\* C9 amended: every error is terminal and nothing is cleaned up; when the
\* completion stage aborts in audio mode the transcription file still holds
\* the transcription text, and no notes file exists unless the abort is the
\* write of the notes file itself failing, which can leave that file
\* created with a prefix of the first choice's content.
C9_AbortLeavesNoNotesFileUnlessWriteFailed ==
    /\ FatalIsTerminal
    /\ (AudioSet /\ CompletionStageAborted) =>
          LET np == generateOrgFilePath(outputFilePath) IN
          /\ FileExists(fs, outputFilePath)
          /\ fs[outputFilePath] = transcriptionText
          /\ FileExists(fs, np) =>
                /\ diag = <<WriteErrorMessage>>
                /\ IsPrefixOf(fs[np], aiResponse[1])

\* C9 witness: audio mode, the completion endpoint answered with an error
\* status, the transcription file is still there
C9_Witness_CompletionErrorKeepsTranscription ==
    /\ AudioSet
    /\ CompletionStageAborted
    /\ diag = <<"Error response from OpenAI API">>
    /\ fs[outputFilePath] = <<"hello", "world">>
    /\ ~FileExists(fs, generateOrgFilePath(outputFilePath))

(***************************************************************************)
(* C10                                                                     *)
(***************************************************************************)
EmptyChoicesReceived == \E i \in Received(ChatURL) : Len(ops[i].data) = 0

\* C10: a successful, well-formed completion response with an empty choices
\* list is handled as a decoding error like any other: the run ends with
\* one logged diagnostic and the exit status of log.Fatal, and no notes
\* file is written.
C10_EmptyChoicesIsDecodingError ==
    (EmptyChoicesReceived /\ Exited) =>
        /\ Len(diag) = 1
        /\ exitStatus = "1"
        /\ WriteAttempts \cap {i \in DOMAIN ops : ops[i].path = notesPath} = {}

(***************************************************************************)
(* C6                                                                      *)
(***************************************************************************)
NoSeparator(s) == \A i \in 1..Len(s) : s[i] # Slash

LastIndexOf(c, s) ==
    LET is == {i \in 1..Len(s) : s[i] = c} IN IF is = {} THEN 0 ELSE MaxOf(is)

\* a name up to its last dot, and the part from the last dot (the dot
\* included; empty when the name has no dot)
StemOf(name) ==
    IF LastIndexOf(Dot, name) = 0 THEN name ELSE Prefix(name, LastIndexOf(Dot, name) - 1)
ExtensionOf(name) ==
    IF LastIndexOf(Dot, name) = 0 THEN EmptyStr ELSE Suffix(name, LastIndexOf(Dot, name))

IsDigit(c) == \E n \in 0..9 : DigitChars[n + 1] = c
DigitValue(c) == CHOOSE n \in 0..9 : DigitChars[n + 1] = c

RECURSIVE NumberOf(_)
NumberOf(digits) ==
    IF digits = << >> THEN 0
    ELSE 10 * NumberOf(Prefix(digits, Len(digits) - 1)) + DigitValue(digits[Len(digits)])

\* ts is YYYYMMDD_HHMMSS of the instant t
IsStampOf(ts, t) ==
    /\ Len(ts) = 15
    /\ ts[9] = "_"
    /\ \A i \in (1..15) \ {9} : IsDigit(ts[i])
    /\ NumberOf(SubSeq(ts, 1, 4)) = t.year
    /\ NumberOf(SubSeq(ts, 5, 6)) = t.month
    /\ NumberOf(SubSeq(ts, 7, 8)) = t.day
    /\ NumberOf(SubSeq(ts, 10, 11)) = t.hour
    /\ NumberOf(SubSeq(ts, 12, 13)) = t.minute
    /\ NumberOf(SubSeq(ts, 14, 15)) = t.second

\* result is <dir>/<name-without-ext>_<YYYYMMDD_HHMMSS><ext>
TimestampedAs(result, dir, name, t) ==
    LET head == dir \o <<Slash>> \o StemOf(name) \o <<"_">> IN
    /\ Len(result) = Len(head) + 15 + Len(ExtensionOf(name))
    /\ Prefix(result, Len(head)) = head
    /\ IsStampOf(SubSeq(result, Len(head) + 1, Len(head) + 15), t)
    /\ Suffix(result, Len(head) + 16) = ExtensionOf(name)

\* result is the path <dir>/<stem>_<YYYYMMDD_HHMMSS><ext>, cleaned as
\* filepath.Join cleans what it returns
StampedPath(result, dir, stem, ext, t) ==
    LET n == Len(result) - Len(ext) IN
    /\ n >= 15
    /\ IsStampOf(SubSeq(result, n - 14, n), t)
    /\ result = Clean(dir \o <<Slash>> \o stem \o <<"_">> \o SubSeq(result, n - 14, n) \o ext)

\* the file name of a path and the directory part in front of it
FileNameOf(p) == Suffix(p, LastIndexOf(Slash, p) + 1)
DirPartOf(p) == Prefix(p, LastIndexOf(Slash, p))

\* the base file name: the -output value, or transcription.txt
BaseNameOfRun ==
    IF args.output = EmptyStr
    THEN <<"t","r","a","n","s","c","r","i","p","t","i","o","n",".","t","x","t">>
    ELSE args.output

TimestampedPathBuilt == pc = "writeTranscription"

NotesPathDerived == pc = "writeNotes"

\* C7: the derived notes path lies in the directory of the reference path
\* and its file name is the reference file name without its last extension
\* (kept whole when it has none) followed by _emacs_org_notes.org.
C7_NotesPathBesideReference ==
    NotesPathDerived =>
        /\ FileNameOf(notesPath) = StemOf(FileNameOf(outputFilePath)) \o OrgSuffix
        /\ Clean(DirPartOf(notesPath)) = Clean(DirPartOf(outputFilePath))

\* C7 witness: a/b.txt gives a/b_emacs_org_notes.org
C7_Witness_SpecExample ==
    /\ NotesPathDerived
    /\ outputFilePath = <<"a","/","b",".","t","x","t">>
    /\ notesPath = <<"a","/","b","_","e","m","a","c","s","_","o","r","g","_",
                     "n","o","t","e","s",".","o","r","g">>

====
